---- MODULE Spec2Model ----
(***************************************************************************)
(* Model of src/call-monitoring.js: the monitoring routes (activeCalls /   *)
(* clients), the call-status routes (callStore / statusSubscribers), the   *)
(* tracked outbound routes (activeCallsStore / monitoringClients) and the  *)
(* media-stream session handler of /outbound-media-stream in its two       *)
(* variants (lines 318-460 "basic", lines 621-793 "tracked").              *)
(***************************************************************************)
EXTENDS Integers, Sequences, FiniteSets, TLC

\* ------------------------------------------------------------------ bounds
MaxPublished == 3
MaxTrackedPublished == 4
MaxFrames == 2
MaxLogs == 3
MaxAiAudio == 3
MaxDropped == 1

\* ------------------------------------------------------------------ values
Undefined == "undefined"
Null == "null"
NoTime == 0
\* ping_event.event_id is a number; an absent one is NoEventId
NoEventId == -1
EventIds == {0, 7}

CallSids == {"CA1", "CA2"}
StreamSids == {"MZ1", "MZ2"}
Phones == {"+15551234"}
Observers == {"o1", "o2"}
\* the observers that connect to each hub
MonitorObservers == {"o1"}
StatusObservers == {"o1"}
TrackedObservers == {"o1"}
Sessions == {"s1", "s2"}
\* the media-stream connection of a call on its own
SingleSession == {"s1"}
Routes == {"basic", "tracked"}
Payloads == {"AAAA", "AAA"}
EventKinds == {"status_change"}
\* the call and the statuses of the specifications that follow one call
HubCall == "CA1"
HubStatuses == {"completed"}

\* status strings a caller or the provider can push
Statuses == {"initiated", "ringing", "answered", "in-progress", "completed", "failed"}
\* status of a call just placed at the provider (call.status of calls.create)
PlacedStatuses == {"queued"}
Terminal == {"completed", "failed"}

\* JavaScript truthiness of the modelled values: undefined, null and "" are falsy
Truthy(v) == v \notin {Undefined, Null, ""}

VARIABLES
  now,               \* the clock that new Date() reads
  activeCalls,       \* Map callSid -> record (monitoring routes)
  clients,           \* Set of /monitor connections, with each socket's state
  callStore,         \* Map callSid -> record (call-status routes)
  statusSubscribers, \* Set of /call-status sockets
  activeCallsStore,  \* Map callSid -> record (tracked outbound routes)
  monitoringClients, \* Set of /call-monitor sockets
  sess,              \* per media-stream connection: the closure's variables and sockets
  published,         \* history: the broadcast calls made so far
  reply              \* the response of the last HTTP request handled

vars == <<now, activeCalls, clients, callStore, statusSubscribers,
          activeCallsStore, monitoringClients, sess, published, reply>>

monitorVars == <<activeCalls, clients>>
statusVars == <<callStore, statusSubscribers>>
trackedVars == <<activeCallsStore, monitoringClients>>

\* ------------------------------------------------------------------ helpers
\* Map.has / Map.get / Map.set / Map.delete on a function with a finite domain
Has(map, k) == k \in DOMAIN map
MapSet(map, k, v) == [x \in (DOMAIN map) \cup {k} |-> IF x = k THEN v ELSE map[x]]
MapDelete(map, k) == [x \in (DOMAIN map) \ {k} |-> map[x]]
\* Array.from(map.values())
Values(map) == {map[k] : k \in DOMAIN map}

NoObserver == [member |-> FALSE, readyState |-> "NONE", inbox |-> <<>>]

\* a forEach that sends to every member of the set, whatever its socket's state
SendToAll(subs, msg) ==
  [o \in Observers |->
     IF subs[o].member THEN [subs[o] EXCEPT !.inbox = Append(@, msg)] ELSE subs[o]]

\* the forEach of broadcastUpdate / broadcastCallStatus / broadcastCallUpdate:
\* send to every member of the set whose socket is OPEN
SendToOpen(subs, msg) ==
  [o \in Observers |->
     IF subs[o].member /\ subs[o].readyState = "OPEN"
     THEN [subs[o] EXCEPT !.inbox = Append(@, msg)]
     ELSE subs[o]]

Publication(hub, type, call) ==
  [hub |-> hub, type |-> type, callSid |-> call.callSid, status |-> call.status]

\* the history of broadcasts: how many were made, and how many of them carried
\* status "completed" for each call
NoPublished == [count |-> 0, completed |-> [c \in CallSids |-> 0]]
Published(pub, p) ==
  [count |-> pub.count + 1,
   completed |-> IF p.status = "completed" /\ p.callSid \in CallSids
                 THEN [pub.completed EXCEPT ![p.callSid] = @ + 1]
                 ELSE pub.completed]

\* reply.code(...).send(...): the route and the status code; placed, whether the
\* handler had called twilioClient.calls.create before it answered
NoReply == [op |-> "none", code |-> 0, placed |-> FALSE]
Reply(op, code) == [op |-> op, code |-> code, placed |-> FALSE]
ReplyAfterCreate(op, code) == [op |-> op, code |-> code, placed |-> TRUE]

\* a handler that adds to the set and sends a snapshot with no records in it
SubscribeEmpty(subs, o, type, table) ==
  [subs EXCEPT ![o] = [member |-> TRUE, readyState |-> "OPEN",
                       inbox |-> <<[type |-> type, calls |-> {}]>>]]

\* a websocket route's handler: add to the set, send the snapshot
Subscribe(subs, o, type, table) ==
  [subs EXCEPT ![o] = [member |-> TRUE, readyState |-> "OPEN",
                       inbox |-> <<[type |-> type, calls |-> Values(table)]>>]]

\* the peer starts the closing handshake: the socket leaves OPEN, no event yet
SocketClosing(subs, o) == [subs EXCEPT ![o].readyState = "CLOSING"]
\* the socket's 'close' event: the handler deletes it from the set
SocketClosed(subs, o) == [subs EXCEPT ![o].readyState = "CLOSED", ![o].member = FALSE]

\* ------------------------------------------------------------------ clock
\* new Date(): a handler that reads the clock finds it advanced since the last one
Advance(t) == t + 1

\* ------------------------------------------------------------------ monitoring routes
\* function broadcastUpdate(type, data)
broadcastUpdate(subs, type, data) ==
  SendToOpen(subs, [type |-> type, calls |-> {data}])

\* GET /monitor (websocket)
MonitorConnect(o) ==
  /\ clients[o].readyState = "NONE"
  /\ clients' = Subscribe(clients, o, "initial", activeCalls)
  /\ UNCHANGED <<now, activeCalls, statusVars, trackedVars, sess, published, reply>>

MonitorClosing(o) ==
  /\ clients[o].readyState = "OPEN"
  /\ clients' = SocketClosing(clients, o)
  /\ UNCHANGED <<now, activeCalls, statusVars, trackedVars, sess, published, reply>>

MonitorClosed(o) ==
  /\ clients[o].readyState \in {"OPEN", "CLOSING"}
  /\ clients' = SocketClosed(clients, o)
  /\ UNCHANGED <<now, activeCalls, statusVars, trackedVars, sess, published, reply>>

\* a POST /monitoring/calls that creates the record without looking at its fields
PostMonitoringCallUnvalidated(callSid, phoneNumber) ==
  LET callData == [callSid |-> callSid, phoneNumber |-> phoneNumber,
                   status |-> "initiated", startTime |-> now,
                   endTime |-> NoTime, events |-> <<"initiated">>]
  IN /\ published.count < MaxPublished
     /\ activeCalls' = MapSet(activeCalls, callSid, callData)
     /\ clients' = broadcastUpdate(clients, "call_initiated", callData)
     /\ published' = Published(published, Publication("clients", "call_initiated", callData))
     /\ reply' = Reply("POST /monitoring/calls", 200)
     /\ now' = Advance(now)
     /\ UNCHANGED <<statusVars, trackedVars, sess>>

\* POST /monitoring/calls
PostMonitoringCall(callSid, phoneNumber) ==
  IF ~Truthy(callSid) \/ ~Truthy(phoneNumber)
  THEN /\ reply' = Reply("POST /monitoring/calls", 400)
       /\ UNCHANGED <<now, monitorVars, statusVars, trackedVars, sess, published>>
  ELSE LET callData == [callSid |-> callSid, phoneNumber |-> phoneNumber,
                        status |-> "initiated", startTime |-> now,
                        endTime |-> NoTime, events |-> <<"initiated">>]
       IN /\ published.count < MaxPublished
          /\ activeCalls' = MapSet(activeCalls, callSid, callData)
          /\ clients' = broadcastUpdate(clients, "call_initiated", callData)
          /\ published' = Published(published, Publication("clients", "call_initiated", callData))
          /\ reply' = Reply("POST /monitoring/calls", 200)
          /\ now' = Advance(now)
          /\ UNCHANGED <<statusVars, trackedVars, sess>>

\* the body shared by PUT /monitoring/calls/:callSid and the exported updateCallStatus
UpdatedCall(call, status, event) ==
  [call EXCEPT !.status = status,
               !.events = Append(@, event),
               !.endTime = IF status = "completed" THEN now ELSE @]

\* a store that keeps the record whatever the status
StoreAfterUpdateKeep(map, callSid, call, status) == MapSet(map, callSid, call)

StoreAfterUpdate(map, callSid, call, status) ==
  IF status = "completed" THEN MapDelete(map, callSid) ELSE MapSet(map, callSid, call)

\* an update that creates the record it does not find
PutMonitoringCallUpsert(callSid, status, event) ==
  LET found == IF Has(activeCalls, callSid) THEN activeCalls[callSid]
               ELSE [callSid |-> callSid, phoneNumber |-> Undefined, status |-> status,
                     startTime |-> now, endTime |-> NoTime, events |-> <<>>]
      call == UpdatedCall(found, status, event)
  IN /\ published.count < MaxPublished
     /\ activeCalls' = StoreAfterUpdate(activeCalls, callSid, call, status)
     /\ clients' = broadcastUpdate(clients, "call_updated", call)
     /\ published' = Published(published, Publication("clients", "call_updated", call))
     /\ reply' = Reply("PUT /monitoring/calls", 200)
     /\ now' = Advance(now)
     /\ UNCHANGED <<statusVars, trackedVars, sess>>

\* PUT /monitoring/calls/:callSid
PutMonitoringCall(callSid, status, event) ==
  IF ~Has(activeCalls, callSid)
  THEN /\ reply' = Reply("PUT /monitoring/calls", 404)
       /\ UNCHANGED <<now, monitorVars, statusVars, trackedVars, sess, published>>
  ELSE LET call == UpdatedCall(activeCalls[callSid], status, event)
       IN /\ published.count < MaxPublished
          /\ activeCalls' = StoreAfterUpdate(activeCalls, callSid, call, status)
          /\ clients' = broadcastUpdate(clients, "call_updated", call)
          /\ published' = Published(published, Publication("clients", "call_updated", call))
          /\ reply' = Reply("PUT /monitoring/calls", 200)
          /\ now' = Advance(now)
          /\ UNCHANGED <<statusVars, trackedVars, sess>>

\* export function updateCallStatus(callSid, status, event)
ExportedUpdateCallStatus(callSid, status, event) ==
  IF Has(activeCalls, callSid)
  THEN LET call == UpdatedCall(activeCalls[callSid], status, event)
       IN /\ published.count < MaxPublished
          /\ activeCalls' = StoreAfterUpdate(activeCalls, callSid, call, status)
          /\ clients' = broadcastUpdate(clients, "call_updated", call)
          /\ published' = Published(published, Publication("clients", "call_updated", call))
          /\ now' = Advance(now)
          /\ UNCHANGED <<statusVars, trackedVars, sess, reply>>
  ELSE UNCHANGED vars

\* GET /monitoring/calls
GetMonitoringCalls ==
  /\ reply' = Reply("GET /monitoring/calls", 200)
  /\ UNCHANGED <<now, monitorVars, statusVars, trackedVars, sess, published>>

\* GET /monitoring/calls/:callSid
GetMonitoringCall(callSid) ==
  /\ reply' = Reply("GET /monitoring/calls/:callSid",
                    IF Has(activeCalls, callSid) THEN 200 ELSE 404)
  /\ UNCHANGED <<now, monitorVars, statusVars, trackedVars, sess, published>>

NextMonitor ==
  \/ \E o \in MonitorObservers : MonitorConnect(o) \/ MonitorClosing(o) \/ MonitorClosed(o)
  \/ \E c \in CallSids \cup {Undefined}, p \in Phones \cup {Undefined} :
       PostMonitoringCall(c, p)
  \/ \E c \in CallSids, s \in Statuses, e \in EventKinds :
       PutMonitoringCall(c, s, e) \/ ExportedUpdateCallStatus(c, s, e)
  \/ GetMonitoringCalls
  \/ \E c \in CallSids : GetMonitoringCall(c)

\* ------------------------------------------------------------------ call-status routes
\* function broadcastCallStatus(callData)
broadcastCallStatus(subs, callData) ==
  SendToOpen(subs, [type |-> "callUpdate", calls |-> {callData}])

\* function updateCallStatus(callSid, status, details = {}) of the call-status routes:
\* { ...existingCall, callSid, status, timestamp, ...details }
NoStatusRecord == [callSid |-> Undefined, status |-> Undefined, timestamp |-> NoTime,
                   to |-> Undefined, duration |-> Undefined]
MergedCall(store, callSid, status, details) ==
  LET existingCall == IF Has(store, callSid) THEN store[callSid] ELSE NoStatusRecord
      base == [existingCall EXCEPT !.callSid = callSid, !.status = status,
                                   !.timestamp = now]
  IN [f \in DOMAIN base |-> IF f \in DOMAIN details THEN details[f] ELSE base[f]]

updateCallStatus(callSid, status, details) ==
  LET updatedCall == MergedCall(callStore, callSid, status, details)
  IN /\ published.count < MaxPublished
     /\ callStore' = MapSet(callStore, callSid, updatedCall)
     /\ statusSubscribers' = broadcastCallStatus(statusSubscribers, updatedCall)
     /\ published' = Published(published,
                            Publication("statusSubscribers", "callUpdate", updatedCall))
     /\ now' = Advance(now)

\* POST /outbound-call of the call-status routes; sid is the provider's answer
\* ("error" when calls.create throws), always a new identifier
StatusOutboundCall(number, sid) ==
  IF ~Truthy(number)
  THEN /\ reply' = Reply("POST /outbound-call", 400)
       /\ UNCHANGED <<now, monitorVars, statusVars, trackedVars, sess, published>>
  ELSE IF sid = "error"
  THEN /\ reply' = ReplyAfterCreate("POST /outbound-call", 500)
       /\ UNCHANGED <<now, monitorVars, statusVars, trackedVars, sess, published>>
  ELSE /\ ~Has(callStore, sid)
       /\ updateCallStatus(sid, "initiated", [to |-> number])
       /\ reply' = ReplyAfterCreate("POST /outbound-call", 200)
       /\ UNCHANGED <<monitorVars, trackedVars, sess>>

\* POST /call-status-webhook
CallStatusWebhook(CallSid, CallStatus, Duration) ==
  /\ updateCallStatus(CallSid, CallStatus, [duration |-> Duration])
  /\ reply' = Reply("POST /call-status-webhook", 200)
  /\ UNCHANGED <<monitorVars, trackedVars, sess>>

\* GET /calls
StatusGetCalls ==
  /\ reply' = Reply("GET /calls", 200)
  /\ UNCHANGED <<now, monitorVars, statusVars, trackedVars, sess, published>>

\* GET /calls/:callSid
StatusGetCall(callSid) ==
  /\ reply' = Reply("GET /calls/:callSid",
                    IF Has(callStore, callSid) THEN 200 ELSE 404)
  /\ UNCHANGED <<now, monitorVars, statusVars, trackedVars, sess, published>>

\* GET /call-status (websocket)
StatusConnect(o) ==
  /\ statusSubscribers[o].readyState = "NONE"
  /\ statusSubscribers' = Subscribe(statusSubscribers, o, "initialState", callStore)
  /\ UNCHANGED <<now, monitorVars, callStore, trackedVars, sess, published, reply>>

StatusClosing(o) ==
  /\ statusSubscribers[o].readyState = "OPEN"
  /\ statusSubscribers' = SocketClosing(statusSubscribers, o)
  /\ UNCHANGED <<now, monitorVars, callStore, trackedVars, sess, published, reply>>

StatusClosed(o) ==
  /\ statusSubscribers[o].readyState \in {"OPEN", "CLOSING"}
  /\ statusSubscribers' = SocketClosed(statusSubscribers, o)
  /\ UNCHANGED <<now, monitorVars, callStore, trackedVars, sess, published, reply>>

\* CallStatus and Duration || CallDuration of the provider's status callback
WebhookStatuses == {"ringing", "in-progress", "completed", "failed"}
Durations == {Undefined, "5"}

\* ------------------------------------------------------------------ tracked outbound routes
\* function broadcastCallUpdate(updateData)
broadcastCallUpdate(subs, updateData) ==
  SendToOpen(subs, [type |-> "callUpdate", calls |-> {updateData}])

\* POST /outbound-call of the tracked routes
\* (writers is history: the media-stream sessions whose handlers wrote the record)
TrackedOutboundCall(number, sid, status) ==
  IF ~Truthy(number)
  THEN /\ reply' = Reply("POST /outbound-call", 400)
       /\ UNCHANGED <<now, monitorVars, statusVars, trackedVars, sess, published>>
  ELSE IF sid = "error"
  THEN /\ reply' = ReplyAfterCreate("POST /outbound-call", 500)
       /\ UNCHANGED <<now, monitorVars, statusVars, trackedVars, sess, published>>
  ELSE LET callData == [callSid |-> sid, to |-> number, status |-> status,
                        startTime |-> now, endTime |-> NoTime,
                        streamSid |-> Undefined, logs |-> <<>>, writers |-> {}]
       IN /\ ~Has(activeCallsStore, sid)
          /\ published.count < MaxTrackedPublished
          /\ activeCallsStore' = MapSet(activeCallsStore, sid, callData)
          /\ monitoringClients' = broadcastCallUpdate(monitoringClients, callData)
          /\ published' = Published(published,
                                 Publication("monitoringClients", "callUpdate", callData))
          /\ reply' = ReplyAfterCreate("POST /outbound-call", 200)
          /\ now' = Advance(now)
          /\ UNCHANGED <<monitorVars, statusVars, sess>>

\* GET /calls
TrackedGetCalls ==
  /\ reply' = Reply("GET /calls", 200)
  /\ UNCHANGED <<now, monitorVars, statusVars, trackedVars, sess, published>>

\* GET /calls/:callSid
TrackedGetCall(callSid) ==
  /\ reply' = Reply("GET /calls/:callSid",
                    IF Has(activeCallsStore, callSid) THEN 200 ELSE 404)
  /\ UNCHANGED <<now, monitorVars, statusVars, trackedVars, sess, published>>

\* GET /call-monitor (websocket)
TrackedConnect(o) ==
  /\ monitoringClients[o].readyState = "NONE"
  /\ monitoringClients' = Subscribe(monitoringClients, o, "initialState", activeCallsStore)
  /\ UNCHANGED <<now, monitorVars, statusVars, activeCallsStore, sess, published, reply>>

TrackedClosing(o) ==
  /\ monitoringClients[o].readyState = "OPEN"
  /\ monitoringClients' = SocketClosing(monitoringClients, o)
  /\ UNCHANGED <<now, monitorVars, statusVars, activeCallsStore, sess, published, reply>>

TrackedClosed(o) ==
  /\ monitoringClients[o].readyState \in {"OPEN", "CLOSING"}
  /\ monitoringClients' = SocketClosed(monitoringClients, o)
  /\ UNCHANGED <<now, monitorVars, statusVars, activeCallsStore, sess, published, reply>>

\* ------------------------------------------------------------------ media-stream session
\* One /outbound-media-stream connection: ws is the media (Twilio) socket, el the
\* state of elevenLabsWs ("fetching" and "fetch_failed": the variable is still null).
\* mediaOut / aiOut are the frames the two peers have been sent.  The remaining
\* fields are history: stopSeen, a 'stop' has arrived; elEvent, the AI socket's
\* last 'error' or 'close'; audioBeforeStart, the audio messages that arrived while
\* streamSid was unset; audioAfterStart, those with a payload that arrived while
\* it was set; audioRelayable, those of the latter that found the media socket open;
\* pingIds, the event ids of the pings that arrived while the AI socket was open;
\* interruptsAfterStart, the interruption messages that arrived while streamSid
\* was set; interruptsRelayable, those of them that found the media socket open;
\* mediaDropped, the 'media' frames that arrived while the AI socket was not open.
NoSession ==
  [route |-> "basic", ws |-> "NONE", streamSid |-> Null, callSid |-> Null,
   el |-> "none", mediaOut |-> <<>>, aiOut |-> <<>>,
   stopSeen |-> FALSE, elEvent |-> "none",
   audioBeforeStart |-> 0, audioAfterStart |-> 0, audioRelayable |-> 0,
   pingIds |-> <<>>,
   interruptsAfterStart |-> 0, interruptsRelayable |-> 0,
   mediaDropped |-> 0]

\* a send that puts the frame ahead of the frames already sent
SendFront(readyState, out, frame) == IF readyState = "OPEN" THEN <<frame>> \o out ELSE out

\* socket.send(frame): a socket that is not OPEN transmits nothing
Send(readyState, out, frame) == IF readyState = "OPEN" THEN Append(out, frame) ELSE out

\* Buffer.from(payload, "base64").toString("base64") on the modelled payloads:
\* the unpadded "AAA" decodes to two bytes and is re-encoded with padding
B64Normalize(payload) == IF payload = "AAA" THEN "AAA=" ELSE payload

MediaFrame(streamSid, payload) ==
  [event |-> "media", streamSid |-> streamSid, payload |-> payload]
ClearFrame(streamSid) ==
  [event |-> "clear", streamSid |-> streamSid, payload |-> Undefined]
AudioChunkFrame(payload) ==
  [type |-> "user_audio_chunk", payload |-> payload, event_id |-> NoEventId]
PongFrame(id) == [type |-> "pong", payload |-> Undefined, event_id |-> id]

\* the route handler: the closure's variables, then setupElevenLabs() up to its await
MediaConnect(s, route) ==
  /\ sess[s].ws = "NONE"
  /\ sess' = [sess EXCEPT ![s] = [NoSession EXCEPT !.route = route, !.ws = "OPEN",
                                                   !.el = "fetching"]]
  /\ UNCHANGED <<now, monitorVars, statusVars, trackedVars, published, reply>>

\* getSignedUrl() resolves: elevenLabsWs = new WebSocket(signedUrl)
SignedUrlResolved(s) ==
  /\ sess[s].el = "fetching"
  /\ sess' = [sess EXCEPT ![s].el = "CONNECTING"]
  /\ UNCHANGED <<now, monitorVars, statusVars, trackedVars, published, reply>>

\* getSignedUrl() rejects: the catch of setupElevenLabs logs
SignedUrlRejected(s) ==
  /\ sess[s].el = "fetching"
  /\ sess' = [sess EXCEPT ![s].el = "fetch_failed"]
  /\ UNCHANGED <<now, monitorVars, statusVars, trackedVars, published, reply>>

\* elevenLabsWs.on("open")
ElOpen(s) ==
  /\ sess[s].el = "CONNECTING"
  /\ sess' = [sess EXCEPT ![s].el = "OPEN"]
  /\ UNCHANGED <<now, monitorVars, statusVars, trackedVars, published, reply>>

\* elevenLabsWs.on("error"), with the socket's end that follows it: both handlers log
ElError(s) ==
  /\ sess[s].el \in {"CONNECTING", "OPEN", "CLOSING"}
  /\ sess' = [sess EXCEPT ![s].el = "CLOSED", ![s].elEvent = "error"]
  /\ UNCHANGED <<now, monitorVars, statusVars, trackedVars, published, reply>>

\* elevenLabsWs.on("close")
ElClose(s) ==
  /\ sess[s].el \in {"OPEN", "CLOSING"}
  /\ sess' = [sess EXCEPT ![s].el = "CLOSED", ![s].elEvent = "close"]
  /\ UNCHANGED <<now, monitorVars, statusVars, trackedVars, published, reply>>

\* if (elevenLabsWs?.readyState === WebSocket.OPEN) elevenLabsWs.close()
CloseIfOpen(el) == IF el = "OPEN" THEN "CLOSING" ELSE el

\* ws.on("close")
MediaClose(s) ==
  /\ sess[s].ws = "OPEN"
  /\ sess' = [sess EXCEPT ![s].ws = "CLOSED", ![s].el = CloseIfOpen(@)]
  /\ UNCHANGED <<now, monitorVars, statusVars, trackedVars, published, reply>>

\* ws.on("message") case "start"; the tracked route also updates the call's record
StartedCall(callData, streamSid) ==
  [callData EXCEPT !.status = "in-progress", !.streamSid = streamSid,
                   !.logs = Append(@, "call_started")]

MediaStart(s, streamSid, callSid) ==
  LET S == [sess[s] EXCEPT !.streamSid = streamSid, !.callSid = callSid]
  IN /\ sess[s].ws = "OPEN"
     /\ sess' = [sess EXCEPT ![s] = S]
     /\ IF S.route = "tracked" /\ Has(activeCallsStore, callSid)
        THEN LET callData == [StartedCall(activeCallsStore[callSid], streamSid)
                                EXCEPT !.writers = @ \cup {s}]
             IN /\ published.count < MaxTrackedPublished
                /\ Len(callData.logs) <= MaxLogs
                /\ activeCallsStore' = MapSet(activeCallsStore, callSid, callData)
                /\ monitoringClients' = broadcastCallUpdate(monitoringClients, callData)
                /\ published' = Published(published,
                                  Publication("monitoringClients", "callUpdate", callData))
                /\ now' = Advance(now)
        ELSE UNCHANGED <<now, trackedVars, published>>
     /\ UNCHANGED <<monitorVars, statusVars, reply>>

AiReadyAlways(S) == TRUE

\* elevenLabsWs?.readyState === WebSocket.OPEN
AiReady(S) == S.el = "OPEN"

\* ws.on("message") case "media"
MediaMedia(s, payload) ==
  LET S == sess[s]
      tracked == S.route = "tracked" /\ Truthy(S.callSid) /\ Has(activeCallsStore, S.callSid)
  IN /\ S.ws = "OPEN"
     /\ IF AiReady(S)
        THEN /\ Len(S.aiOut) < MaxFrames
             /\ sess' = [sess EXCEPT ![s].aiOut =
                            Send(S.el, @, AudioChunkFrame(B64Normalize(payload)))]
             /\ IF tracked
                THEN /\ Len(activeCallsStore[S.callSid].logs) < MaxLogs
                     /\ activeCallsStore' =
                          [activeCallsStore EXCEPT
                             ![S.callSid].logs = Append(@, "media_received"),
                             ![S.callSid].writers = @ \cup {s}]
                     /\ now' = Advance(now)
                ELSE UNCHANGED <<now, activeCallsStore>>
        ELSE /\ S.mediaDropped < MaxDropped
             /\ sess' = [sess EXCEPT ![s].mediaDropped = @ + 1]
             /\ UNCHANGED <<now, activeCallsStore>>
     /\ UNCHANGED <<monitorVars, statusVars, monitoringClients, published, reply>>

\* ws.on("message") case "stop"
StoppedCall(callData) ==
  [callData EXCEPT !.status = "completed", !.endTime = now,
                   !.logs = Append(@, "call_ended")]

MediaStop(s) ==
  LET S == sess[s]
  IN /\ S.ws = "OPEN"
     /\ IF S.route = "basic"
        THEN /\ sess' = [sess EXCEPT ![s].el = CloseIfOpen(@), ![s].stopSeen = TRUE]
             /\ UNCHANGED <<now, trackedVars, published>>
        ELSE /\ sess' = [sess EXCEPT ![s].stopSeen = TRUE]
             /\ IF Truthy(S.callSid) /\ Has(activeCallsStore, S.callSid)
                THEN LET callData == [StoppedCall(activeCallsStore[S.callSid])
                                        EXCEPT !.writers = @ \cup {s}]
                     IN /\ published.count < MaxTrackedPublished
                        /\ Len(callData.logs) <= MaxLogs
                        /\ activeCallsStore' = MapSet(activeCallsStore, S.callSid, callData)
                        /\ monitoringClients' =
                             broadcastCallUpdate(monitoringClients, callData)
                        /\ published' = Published(published,
                             Publication("monitoringClients", "callUpdate", callData))
                        /\ now' = Advance(now)
                ELSE UNCHANGED <<now, trackedVars, published>>
     /\ UNCHANGED <<monitorVars, statusVars, reply>>

\* messages of the AI peer: message.type, message.audio?.chunk,
\* message.audio_event?.audio_base_64, message.ping_event?.event_id
AiMessage(type, chunk, audio_base_64, event_id) ==
  [type |-> type, chunk |-> chunk, audio_base_64 |-> audio_base_64, event_id |-> event_id]
AiMessages ==
  {AiMessage("audio", "AAAA", Undefined, NoEventId),
   AiMessage("audio", Undefined, "AAAA", NoEventId),
   AiMessage("audio", Undefined, Undefined, NoEventId),
   AiMessage("interruption", Undefined, Undefined, NoEventId),
   AiMessage("ping", Undefined, Undefined, 7),
   AiMessage("conversation_initiation_metadata", Undefined, Undefined, NoEventId)}
\* pings with each event id and with none
PingMessages ==
  {AiMessage("ping", Undefined, Undefined, id) : id \in EventIds \cup {NoEventId}}

HasPayload(m) == Truthy(m.chunk) \/ Truthy(m.audio_base_64)

\* an audio case that forwards whether or not the stream is known
AudioFramesUngated(S, m) ==
  IF Truthy(m.chunk) THEN <<MediaFrame(S.streamSid, m.chunk)>>
  ELSE IF Truthy(m.audio_base_64) THEN <<MediaFrame(S.streamSid, m.audio_base_64)>>
  ELSE <<>>

\* case "audio": the frames sent to the media peer
AudioFrames(S, m) ==
  IF Truthy(S.streamSid)
  THEN IF Truthy(m.chunk) THEN <<MediaFrame(S.streamSid, m.chunk)>>
       ELSE IF Truthy(m.audio_base_64) THEN <<MediaFrame(S.streamSid, m.audio_base_64)>>
       ELSE <<>>
  ELSE <<>>

\* an interruption case that sends 'clear' whether or not the stream is known
InterruptionFramesUngated(S) == <<ClearFrame(S.streamSid)>>

\* case "interruption"
InterruptionFrames(S) ==
  IF Truthy(S.streamSid) THEN <<ClearFrame(S.streamSid)>> ELSE <<>>

\* if (message.ping_event?.event_id): an absent id and the number 0 are falsy
TruthyId(id) == id # NoEventId /\ id # 0

\* case "ping"
PongFrames(m) == IF TruthyId(m.event_id) THEN <<PongFrame(m.event_id)>> ELSE <<>>

SendAll(readyState, out, frames) ==
  IF frames = <<>> THEN out ELSE Send(readyState, out, frames[1])

\* elevenLabsWs.on("message"); a closing socket still delivers what was in flight
ElMessage(s, m) ==
  LET S == sess[s]
      toMedia == IF m.type = "audio" THEN AudioFrames(S, m)
                 ELSE IF m.type = "interruption" THEN InterruptionFrames(S)
                 ELSE <<>>
      toAi == IF m.type = "ping" THEN PongFrames(m) ELSE <<>>
      isAudio == m.type = "audio"
      isPing == m.type = "ping" /\ m.event_id # NoEventId /\ S.el = "OPEN"
      isInterrupt == m.type = "interruption"
  IN /\ S.el \in {"OPEN", "CLOSING"}
     /\ isPing => Len(S.pingIds) < MaxFrames
     /\ Len(S.mediaOut) + Len(toMedia) <= MaxFrames
     /\ Len(S.aiOut) + Len(toAi) <= MaxFrames
     /\ (isAudio \/ isInterrupt) =>
          S.audioBeforeStart + S.audioAfterStart + S.interruptsAfterStart < MaxAiAudio
     /\ sess' = [sess EXCEPT
          ![s].mediaOut = SendAll(S.ws, @, toMedia),
          ![s].aiOut = SendAll(S.el, @, toAi),
          ![s].audioBeforeStart = IF isAudio /\ ~Truthy(S.streamSid) THEN @ + 1 ELSE @,
          ![s].audioAfterStart =
             IF isAudio /\ HasPayload(m) /\ Truthy(S.streamSid) THEN @ + 1 ELSE @,
          ![s].audioRelayable =
             IF isAudio /\ HasPayload(m) /\ Truthy(S.streamSid) /\ S.ws = "OPEN"
             THEN @ + 1 ELSE @,
          ![s].pingIds = IF isPing THEN Append(@, m.event_id) ELSE @,
          ![s].interruptsAfterStart =
             IF isInterrupt /\ Truthy(S.streamSid) THEN @ + 1 ELSE @,
          ![s].interruptsRelayable =
             IF isInterrupt /\ Truthy(S.streamSid) /\ S.ws = "OPEN" THEN @ + 1 ELSE @]
     /\ UNCHANGED <<now, monitorVars, statusVars, trackedVars, published, reply>>

\* start messages: msg.start.streamSid and msg.start.callSid, either possibly absent
StartMessages ==
  {<<"MZ1", "CA1">>, <<"MZ2", "CA1">>, <<"MZ2", "CA2">>, <<Undefined, Undefined>>}

SessionLifecycle(s) ==
  \/ SignedUrlResolved(s)
  \/ SignedUrlRejected(s)
  \/ ElOpen(s)
  \/ ElError(s)
  \/ ElClose(s)
  \/ MediaClose(s)

MediaMessages(s) ==
  \/ \E m \in StartMessages : MediaStart(s, m[1], m[2])
  \/ \E p \in Payloads : MediaMedia(s, p)
  \/ MediaStop(s)

\* with no call placed the callSid of a 'start' selects no record: one value
RelayStartMessages ==
  {<<"MZ1", "CA1">>, <<"MZ2", "CA1">>, <<Undefined, Undefined>>}

\* the relay alone: both route variants, no call placed
NextRelay ==
  \E s \in SingleSession :
    \/ \E r \in Routes : MediaConnect(s, r)
    \/ SessionLifecycle(s)
    \/ \E m \in RelayStartMessages : MediaStart(s, m[1], m[2])
    \/ \E p \in Payloads : MediaMedia(s, p)
    \/ MediaStop(s)
    \/ \E m \in AiMessages : ElMessage(s, m)

\* the three call-creating requests, with and without their required fields,
\* one observer on each hub
NextCreate ==
  \/ \E c \in CallSids \cup {Undefined}, p \in Phones \cup {Undefined} :
       PostMonitoringCall(c, p)
  \/ \E n \in Phones \cup {Undefined}, sid \in CallSids \cup {"error"} :
       StatusOutboundCall(n, sid)
  \/ \E n \in Phones \cup {Undefined}, sid \in CallSids \cup {"error"}, st \in PlacedStatuses :
       TrackedOutboundCall(n, sid, st)
  \/ \E o \in MonitorObservers : MonitorConnect(o)
  \/ \E o \in StatusObservers : StatusConnect(o)
  \/ \E o \in TrackedObservers : TrackedConnect(o)

\* the relay with the AI peer's pings
NextPing ==
  \E s \in SingleSession :
    \/ \E r \in Routes : MediaConnect(s, r)
    \/ SessionLifecycle(s)
    \/ MediaMessages(s)
    \/ \E m \in PingMessages : ElMessage(s, m)

\* the tracked routes with their media-stream sessions
NextTracked ==
  \/ \E n \in Phones \cup {Undefined}, sid \in CallSids \cup {"error"}, st \in PlacedStatuses :
       TrackedOutboundCall(n, sid, st)
  \/ TrackedGetCalls
  \/ \E c \in CallSids : TrackedGetCall(c)
  \/ \E s \in SingleSession :
       \/ MediaConnect(s, "tracked")
       \/ SessionLifecycle(s)
       \/ MediaMessages(s)

\* one tracked call and two media-stream connections
NextShared ==
  \/ \E n \in Phones, st \in PlacedStatuses : TrackedOutboundCall(n, HubCall, st)
  \/ \E s \in Sessions :
       \/ MediaConnect(s, "tracked")
       \/ MediaClose(s)
       \/ \E m \in StartMessages : MediaStart(s, m[1], m[2])
       \/ MediaStop(s)

\* one tracked call and one media-stream connection of either route
NextMedia ==
  \/ \E n \in Phones, st \in PlacedStatuses : TrackedOutboundCall(n, HubCall, st)
  \/ \E s \in SingleSession :
       \/ \E r \in Routes : MediaConnect(s, r)
       \/ SessionLifecycle(s)
       \/ MediaMessages(s)

\* the call-status routes with their observers
NextStatus ==
  \/ \E o \in StatusObservers : StatusConnect(o) \/ StatusClosing(o) \/ StatusClosed(o)
  \/ \E n \in Phones \cup {Undefined}, sid \in CallSids \cup {"error"} :
       StatusOutboundCall(n, sid)
  \/ \E c \in CallSids, st \in WebhookStatuses, d \in Durations : CallStatusWebhook(c, st, d)
  \/ StatusGetCalls
  \/ \E c \in CallSids : StatusGetCall(c)

\* the request handlers of the monitoring and call-status routes, no socket connected
NextApi ==
  \/ \E c \in CallSids \cup {Undefined}, p \in Phones \cup {Undefined} :
       PostMonitoringCall(c, p)
  \/ \E c \in CallSids, s \in Statuses, e \in EventKinds :
       PutMonitoringCall(c, s, e) \/ ExportedUpdateCallStatus(c, s, e)
  \/ \E c \in CallSids : GetMonitoringCall(c)
  \/ \E c \in CallSids, st \in WebhookStatuses, d \in Durations : CallStatusWebhook(c, st, d)
  \/ \E c \in CallSids : StatusGetCall(c)

\* the hubs of the monitoring and call-status routes with their publishers:
\* two /monitor observers, one /call-status observer, one call
NextHub ==
  \/ \E o \in Observers : MonitorConnect(o) \/ MonitorClosing(o) \/ MonitorClosed(o)
  \/ \E p \in Phones : PostMonitoringCall(HubCall, p)
  \/ \E s \in HubStatuses, e \in EventKinds :
       PutMonitoringCall(HubCall, s, e)
  \/ \E o \in StatusObservers : StatusConnect(o) \/ StatusClosing(o) \/ StatusClosed(o)
  \/ \E st \in HubStatuses : CallStatusWebhook(HubCall, st, Undefined)

\* ------------------------------------------------------------------ initial state
Init ==
  /\ now = 1
  /\ activeCalls = <<>>
  /\ clients = [o \in Observers |-> NoObserver]
  /\ callStore = <<>>
  /\ statusSubscribers = [o \in Observers |-> NoObserver]
  /\ activeCallsStore = <<>>
  /\ monitoringClients = [o \in Observers |-> NoObserver]
  /\ sess = [s \in Sessions |-> NoSession]
  /\ published = NoPublished
  /\ reply = NoReply

SpecMonitor == Init /\ [][NextMonitor]_vars
SpecStatus == Init /\ [][NextStatus]_vars
SpecTracked == Init /\ [][NextTracked]_vars
SpecRelay == Init /\ [][NextRelay]_vars
SpecApi == Init /\ [][NextApi]_vars
SpecHub == Init /\ [][NextHub]_vars
SpecPing == Init /\ [][NextPing]_vars
SpecCreate == Init /\ [][NextCreate]_vars
SpecShared == Init /\ [][NextShared]_vars
SpecMedia == Init /\ [][NextMedia]_vars

\* ------------------------------------------------------------------ properties
Live(s) == sess[s].ws # "NONE"
\* the record of the tracked routes that session s has named in its 'start'
SessionTracksCall(s) ==
  /\ Live(s)
  /\ sess[s].route = "tracked"
  /\ Truthy(sess[s].callSid)
  /\ Has(activeCallsStore, sess[s].callSid)
MediaFrameCount(s) ==
  Cardinality({i \in 1..Len(sess[s].mediaOut) : sess[s].mediaOut[i].event = "media"})

\* C1: whenever the media peer connection of a session has closed, the session's
\* AI peer connection is not open once the pending signed-URL fetch and socket
\* open have run their course.
C1_MediaClosePropagates ==
  \A s \in Sessions : sess[s].ws = "CLOSED" => sess[s].el # "OPEN"

\* C2: after the AI peer's 'close' or 'error' event has been handled, the media
\* peer connection of the session is no longer open.
C2_AiCloseTearsDownMedia ==
  \A s \in Sessions : sess[s].elEvent \in {"error", "close"} => sess[s].ws # "OPEN"

\* C3: in every table, a record's status never moves backwards along
\* initiated, ringing, answered, in-progress, completed (a move to failed is
\* always allowed), and a completed or failed status never changes again.
StatusRank(status) ==
  CASE status = "queued" -> 0
    [] status = "initiated" -> 1
    [] status = "ringing" -> 2
    [] status = "answered" -> 3
    [] status = "in-progress" -> 4
    [] status = "completed" -> 5
    [] OTHER -> 6
MonotonicStep(old, new) ==
  /\ old \in Terminal => new = old
  /\ new = "failed" \/ StatusRank(new) >= StatusRank(old)
C3_StatusMonotonic ==
  [][/\ \A c \in (DOMAIN activeCalls) \cap (DOMAIN activeCalls') :
          activeCalls'[c].startTime = activeCalls[c].startTime
            => MonotonicStep(activeCalls[c].status, activeCalls'[c].status)
     /\ \A c \in (DOMAIN callStore) \cap (DOMAIN callStore') :
          MonotonicStep(callStore[c].status, callStore'[c].status)
     /\ \A c \in (DOMAIN activeCallsStore) \cap (DOMAIN activeCallsStore') :
          MonotonicStep(activeCallsStore[c].status, activeCallsStore'[c].status)]_vars

\* C4 as stated: the media frames sent to the media peer are exactly the audio
\* messages with a payload that arrived after 'start' had set streamSid.
C4_FramesAreAudioAfterStart ==
  \A s \in Sessions : MediaFrameCount(s) = sess[s].audioAfterStart

\* C4 as amended: the media frames sent to the media peer are exactly the audio
\* messages with a payload that arrived after 'start' had set streamSid and
\* while the media peer connection was open; audio that arrived while streamSid
\* was unset, or after the media peer closed, has no frame, then or later.
C4_FramesAreRelayableAudio ==
  \A s \in Sessions : MediaFrameCount(s) = sess[s].audioRelayable

\* audio was dropped before 'start' and audio was relayed after it
C4_Witness ==
  \E s \in Sessions :
    /\ sess[s].audioBeforeStart >= 1
    /\ sess[s].audioRelayable >= 1
    /\ MediaFrameCount(s) >= 1

\* C5: once either peer connection of a session has closed or errored, the
\* session's call record is completed if 'stop' had been seen, otherwise failed.
C5_CloseEndsTerminal ==
  \A s \in Sessions :
    (SessionTracksCall(s) /\ (sess[s].ws = "CLOSED" \/ sess[s].elEvent # "none"))
      => activeCallsStore[sess[s].callSid].status =
           IF sess[s].stopSeen THEN "completed" ELSE "failed"

\* C6: when the signed-URL fetch of a session has failed, no AI connection
\* exists for it and the session's call record is failed.
C6_FetchFailureFails ==
  \A s \in Sessions :
    sess[s].el = "fetch_failed" /\ SessionTracksCall(s)
      => activeCallsStore[sess[s].callSid].status = "failed"

\* C7: once a 'stop' has completed a tracked call, its end time is set and
\* exactly one broadcast with status completed has been made for it, whatever
\* arrives later.
C7_StopCompletesOnce ==
  \A c \in CallSids :
    published.completed[c] >= 1
      => /\ Has(activeCallsStore, c)
         /\ activeCallsStore[c].endTime # NoTime
         /\ published.completed[c] = 1

\* C8 as stated: no table that a list query or an observer's snapshot shows
\* holds a record whose status is completed or failed.
NoTerminalIn(table) == \A c \in DOMAIN table : table[c].status \notin Terminal
C9_CreateExistingRefused ==
  [][\A c \in CallSids, p \in Phones :
       (Has(activeCalls, c) /\ PostMonitoringCall(c, p))
         => (reply'.code # 200 /\ activeCalls' = activeCalls)]_vars

\* C10: no table, no observer and no broadcast count changes
NothingChanged ==
  UNCHANGED <<activeCalls, callStore, activeCallsStore, published,
              clients, statusSubscribers, monitoringClients>>
\* PUT, the exported updateCallStatus and the gets, for a callSid that has no
\* record in the handler's table
UnknownIdLeftAlone ==
  \A c \in CallSids :
    /\ ~Has(activeCalls, c) =>
         /\ \A st \in Statuses, e \in EventKinds :
              /\ PutMonitoringCall(c, st, e) => (NothingChanged /\ reply'.code = 404)
              /\ ExportedUpdateCallStatus(c, st, e) => NothingChanged
         /\ GetMonitoringCall(c) => (NothingChanged /\ reply'.code = 404)
    /\ ~Has(callStore, c) =>
         (StatusGetCall(c) => (NothingChanged /\ reply'.code = 404))

\* C10 as stated: an update or a get for a callSid with no record changes no
\* table, makes no broadcast and reports not-found, the webhook's update included.
C10_UnknownIdChangesNothing ==
  [][/\ UnknownIdLeftAlone
     /\ \A c \in CallSids :
          ~Has(callStore, c) =>
            \A st \in WebhookStatuses, d \in Durations :
              CallStatusWebhook(c, st, d) => (NothingChanged /\ reply'.code = 404)]_vars

\* C10 as amended: PUT, the exported updateCallStatus and the gets change no
\* table and make no broadcast for a callSid with no record, PUT and the gets
\* reporting 404; the webhook's updateCallStatus creates the record in
\* callStore, broadcasts it and answers 200.
C10_UnknownIdExceptWebhook ==
  [][/\ UnknownIdLeftAlone
     /\ \A c \in CallSids :
          ~Has(callStore, c) =>
            \A st \in WebhookStatuses, d \in Durations :
              CallStatusWebhook(c, st, d)
                => /\ Has(callStore', c)
                   /\ callStore'[c].status = st
                   /\ published'.count = published.count + 1
                   /\ reply'.code = 200]_vars

\* a PUT for a callSid without a record has been answered 404 while records exist
C10_Witness ==
  /\ reply = Reply("PUT /monitoring/calls", 404)
  /\ activeCalls # <<>>
  /\ callStore # <<>>

\* C11: a publish appends its message exactly once to the inbox of every
\* subscriber whose socket is open and leaves every other subscriber as it was
Delivered(subs, subsAfter, msg) ==
  \A o \in Observers :
    IF subs[o].member /\ subs[o].readyState = "OPEN"
    THEN subsAfter[o] = [subs[o] EXCEPT !.inbox = Append(@, msg)]
    ELSE subsAfter[o] = subs[o]
HubMessage(type, call) == [type |-> type, calls |-> {call}]
\* a subscriber whose socket has left OPEN is sent nothing again
SkippedStaySkipped(subs, subsAfter) ==
  \A o \in Observers :
    subs[o].readyState \in {"CLOSING", "CLOSED"} => subsAfter[o].inbox = subs[o].inbox
\* C11: every publish of broadcastUpdate and broadcastCallStatus (it completes: the publishing step is
\* taken) delivers the message exactly once to each open subscriber of its hub
\* and nothing to the others, and a subscriber that is not open never receives
\* anything later.
C11_PublishSkipsNonOpen ==
  [][/\ \A p \in Phones :
          (PostMonitoringCall(HubCall, p) /\ published' # published)
            => Delivered(clients, clients',
                         HubMessage("call_initiated", activeCalls'[HubCall]))
     /\ \A s \in HubStatuses, e \in EventKinds :
          (PutMonitoringCall(HubCall, s, e) /\ published' # published)
            => Delivered(clients, clients',
                         HubMessage("call_updated", UpdatedCall(activeCalls[HubCall], s, e)))
     /\ \A st \in HubStatuses :
          CallStatusWebhook(HubCall, st, Undefined)
            => Delivered(statusSubscribers, statusSubscribers',
                         HubMessage("callUpdate", callStore'[HubCall]))
     /\ SkippedStaySkipped(clients, clients')
     /\ SkippedStaySkipped(statusSubscribers, statusSubscribers')]_vars

\* one publish has been made with two /monitor subscribers that had both taken
\* the empty snapshot: the open one has the message, the closing one was skipped
C11_Witness ==
  /\ published.count = 1
  /\ activeCalls # <<>>
  /\ clients["o1"].member /\ clients["o1"].readyState = "OPEN"
  /\ Len(clients["o1"].inbox) = 2
  /\ clients["o2"].member /\ clients["o2"].readyState = "CLOSING"
  /\ clients["o2"].inbox = <<[type |-> "initial", calls |-> {}]>>

\* what a /monitor observer makes of its messages: the snapshot's records, then
\* each record created or updated, an update to completed taking the record away
SnapshotTable(calls) ==
  [c \in {r.callSid : r \in calls} |-> CHOOSE r \in calls : r.callSid = c]
ApplyMessage(table, msg) ==
  LET r == CHOOSE x \in msg.calls : TRUE
  IN IF msg.type = "call_updated" /\ r.status = "completed"
     THEN MapDelete(table, r.callSid)
     ELSE MapSet(table, r.callSid, r)
RECURSIVE Replay(_, _, _)
Replay(table, inbox, i) ==
  IF i > Len(inbox) THEN table ELSE Replay(ApplyMessage(table, inbox[i]), inbox, i + 1)

\* C12: a connected /monitor observer's first message is the one 'initial'
\* snapshot of the records active when it subscribed, every later message is a
\* call_initiated or call_updated, and the snapshot followed by those messages in
\* order gives exactly the current table: no change came before the snapshot,
\* none was missed after it, none is out of order.
C12_SnapshotThenChangesInOrder ==
  \A o \in Observers :
    (clients[o].member /\ clients[o].readyState = "OPEN") =>
      LET inbox == clients[o].inbox
      IN /\ Len(inbox) >= 1
         /\ inbox[1].type = "initial"
         /\ \A i \in 2..Len(inbox) : inbox[i].type \in {"call_initiated", "call_updated"}
         /\ Replay(SnapshotTable(inbox[1].calls), inbox, 2) = activeCalls

\* an observer that subscribed while a record was active has since received a
\* creation and an update
C12_Witness ==
  \E o \in Observers :
    /\ clients[o].member /\ clients[o].readyState = "OPEN"
    /\ Len(clients[o].inbox) >= 3
    /\ clients[o].inbox[1].calls # {}
    /\ clients[o].inbox[2].type = "call_initiated"
    /\ clients[o].inbox[3].type = "call_updated"

\* the event ids of the pong frames sent to the AI peer, in the order sent
IsPong(frame) == frame.type = "pong"
PongIds(s) ==
  LET pongs == SelectSeq(sess[s].aiOut, IsPong)
  IN [i \in 1..Len(pongs) |-> pongs[i].event_id]

\* C13: the pong frames sent to the AI peer are, in order, one per ping that
\* carried an event id (0 included) and arrived on the open AI socket, each with
\* that ping's id, and a ping sends nothing to the media peer.
C13_EveryPingAnswered ==
  \A s \in Sessions :
    /\ PongIds(s) = sess[s].pingIds
    /\ sess[s].mediaOut = <<>>

\* a creating request answered 400 without a provider call, no table, observer
\* or broadcast count changed
Rejected ==
  /\ reply'.code = 400
  /\ ~reply'.placed
  /\ NothingChanged

\* C14: POST /monitoring/calls without callSid or phoneNumber and POST
\* /outbound-call without number are answered 400, create no record in any
\* table, place no provider call and make no broadcast.
C14_MissingNumberRejected ==
  [][/\ \A c \in CallSids \cup {Undefined}, p \in Phones \cup {Undefined} :
          ((~Truthy(c) \/ ~Truthy(p)) /\ PostMonitoringCall(c, p)) => Rejected
     /\ \A sid \in CallSids \cup {"error"} :
          /\ StatusOutboundCall(Undefined, sid) => Rejected
          /\ \A st \in PlacedStatuses : TrackedOutboundCall(Undefined, sid, st) => Rejected]_vars

\* a POST /monitoring/calls has been refused while records exist and an observer
\* is connected to each hub
C14_Witness ==
  /\ reply = Reply("POST /monitoring/calls", 400)
  /\ activeCalls # <<>> /\ callStore # <<>> /\ activeCallsStore # <<>>
  /\ clients["o1"].readyState = "OPEN"
  /\ statusSubscribers["o1"].readyState = "OPEN"
  /\ monitoringClients["o1"].readyState = "OPEN"

\* the user_audio_chunk payloads sent to the AI peer, in the order sent
IsChunk(frame) == frame.type = "user_audio_chunk"
ChunkPayloads(out) ==
  LET chunks == SelectSeq(out, IsChunk)
  IN [i \in 1..Len(chunks) |-> chunks[i].payload]
\* the frame an AI message stands for on the media side
RelayedFrame(S, m) ==
  IF m.type = "interruption" THEN ClearFrame(S.streamSid)
  ELSE MediaFrame(S.streamSid, IF Truthy(m.chunk) THEN m.chunk ELSE m.audio_base_64)
\* the frames sent in either direction change only in the handler of the frame
\* they relay, and then by that one frame added at the end
InReceiptOrder(Sent(_)) ==
  \A s \in Sessions :
    LET S == sess[s]
        T == sess'[s]
    IN /\ \/ ChunkPayloads(T.aiOut) = ChunkPayloads(S.aiOut)
          \/ \E p \in Payloads :
               /\ ChunkPayloads(T.aiOut) = Append(ChunkPayloads(S.aiOut), Sent(p))
               /\ MediaMedia(s, p)
       /\ \/ T.mediaOut = S.mediaOut
          \/ \E m \in AiMessages :
               /\ m.type \in {"audio", "interruption"}
               /\ T.mediaOut = Append(S.mediaOut, RelayedFrame(S, m))
               /\ ElMessage(s, m)

\* C15 as stated: in both directions the frames sent are the frames received,
\* in receipt order, each at most once; the user_audio_chunk payloads sent to
\* the AI peer are the media peer's payloads themselves.
Verbatim(p) == p
C15_ForwardedVerbatimInOrder == [][InReceiptOrder(Verbatim)]_vars

\* C15 as amended: the same, the payload sent to the AI peer being the received
\* payload decoded and re-encoded as base64.
C15_ForwardedInReceiptOrder == [][InReceiptOrder(B64Normalize)]_vars

\* two media payloads have gone to the AI peer in the order received, the first
\* re-encoded, and an audio then an interruption have gone to the media peer
C15_Witness ==
  \E s \in Sessions :
    /\ ChunkPayloads(sess[s].aiOut) = <<"AAA=", "AAAA">>
    /\ Len(sess[s].mediaOut) = 2
    /\ sess[s].mediaOut[1].event = "media"
    /\ sess[s].mediaOut[2].event = "clear"

\* C16: a record whose status is completed or failed gets no further entry in
\* its event log: no step changes the logs of such a record of activeCallsStore
\* or the events of such a record of activeCalls (a record created anew under
\* the same callSid apart).
C16_NoAppendAfterTerminal ==
  [][/\ \A c \in (DOMAIN activeCallsStore) \cap (DOMAIN activeCallsStore') :
          activeCallsStore[c].status \in Terminal
            => activeCallsStore'[c].logs = activeCallsStore[c].logs
     /\ \A c \in (DOMAIN activeCalls) \cap (DOMAIN activeCalls') :
          (activeCalls[c].status \in Terminal
             /\ activeCalls'[c].startTime = activeCalls[c].startTime)
            => activeCalls'[c].events = activeCalls[c].events]_vars

\* the end timestamp of a record; the call-status routes' records have none
EndTimeOf(r) == IF "endTime" \in DOMAIN r THEN r.endTime ELSE NoTime
EndTimeMatchesStatus(table) ==
  \A c \in DOMAIN table : (EndTimeOf(table[c]) # NoTime) <=> (table[c].status \in Terminal)
EndTimeKept(table, tableAfter) ==
  \A c \in (DOMAIN table) \cap (DOMAIN tableAfter) :
    EndTimeOf(table[c]) # NoTime => EndTimeOf(tableAfter[c]) = EndTimeOf(table[c])

\* C17: in every table a record has an end timestamp exactly when its status is
\* completed or failed, and an end timestamp once set is never changed by a
\* later step.
C17_EndTimeSetOnceOnTerminal ==
  [][/\ EndTimeMatchesStatus(activeCalls') /\ EndTimeKept(activeCalls, activeCalls')
     /\ EndTimeMatchesStatus(callStore') /\ EndTimeKept(callStore, callStore')
     /\ EndTimeMatchesStatus(activeCallsStore')
     /\ EndTimeKept(activeCallsStore, activeCallsStore')]_vars

\* C18: a 'start' that carries a streamSid and a callSid leaves a record for
\* that callSid with status in-progress and that streamSid, whatever the
\* record was before and whether or not it existed, and makes one broadcast.
C18_StartForcesInProgress ==
  [][\A s \in Sessions, m \in StartMessages :
       (Truthy(m[1]) /\ Truthy(m[2]) /\ MediaStart(s, m[1], m[2]))
         => /\ Has(activeCallsStore', m[2])
            /\ activeCallsStore'[m[2]].status = "in-progress"
            /\ activeCallsStore'[m[2]].streamSid = m[1]
            /\ published'.count = published.count + 1]_vars

\* two values of a session variable that the handlers cannot tell apart: the
\* same identifier, or both unset (null, undefined)
SameSid(a, b) == a = b \/ (~Truthy(a) /\ ~Truthy(b))

\* C19: a structurally incomplete frame has no effect: a 'start' whose
\* streamSid or callSid is missing leaves the session's streamSid and callSid,
\* both sockets, the frames sent and every call record as they were.
C19_IncompleteStartDropped ==
  [][\A s \in Sessions, m \in StartMessages :
       ((~Truthy(m[1]) \/ ~Truthy(m[2])) /\ MediaStart(s, m[1], m[2]))
         => /\ SameSid(sess'[s].streamSid, sess[s].streamSid)
            /\ SameSid(sess'[s].callSid, sess[s].callSid)
            /\ sess'[s].ws = sess[s].ws /\ sess'[s].el = sess[s].el
            /\ sess'[s].mediaOut = sess[s].mediaOut /\ sess'[s].aiOut = sess[s].aiOut
            /\ activeCallsStore' = activeCallsStore
            /\ published' = published]_vars

\* C20: no record of activeCallsStore has been written by the handlers of two
\* different media-stream sessions.
C20_OneSessionPerRecord ==
  \A c \in DOMAIN activeCallsStore : Cardinality(activeCallsStore[c].writers) <= 1

ClearFrameCount(s) ==
  Cardinality({i \in 1..Len(sess[s].mediaOut) : sess[s].mediaOut[i].event = "clear"})
Interruption == AiMessage("interruption", Undefined, Undefined, NoEventId)
\* every frame sent to the media peer carries a stream identifier
FramesCarryStreamSid(out) == \A i \in 1..Len(out) : Truthy(out[i].streamSid)

\* C21 as stated: an 'interruption' sends exactly one 'clear' frame with the
\* session's current streamSid to the media peer when streamSid is known and
\* none when it is not, and no frame sent to the media peer has a null streamSid.
C21_ClearWhenStreamKnown ==
  [][\A s \in Sessions :
       /\ ElMessage(s, Interruption)
            => sess'[s].mediaOut =
                 IF Truthy(sess[s].streamSid)
                 THEN Append(sess[s].mediaOut, ClearFrame(sess[s].streamSid))
                 ELSE sess[s].mediaOut
       /\ FramesCarryStreamSid(sess'[s].mediaOut)]_vars

\* C21 as amended: an 'interruption' sends exactly one 'clear' frame with the
\* session's current streamSid to the media peer when streamSid is known and
\* the media peer connection is open, and none when streamSid is unknown or the
\* media peer connection has closed; no frame sent to the media peer has a null
\* streamSid.
C21_ClearWhenStreamKnownAndOpen ==
  [][\A s \in Sessions :
       /\ ElMessage(s, Interruption)
            => sess'[s].mediaOut =
                 IF Truthy(sess[s].streamSid) /\ sess[s].ws = "OPEN"
                 THEN Append(sess[s].mediaOut, ClearFrame(sess[s].streamSid))
                 ELSE sess[s].mediaOut
       /\ FramesCarryStreamSid(sess'[s].mediaOut)]_vars

\* one interruption was answered with a 'clear' frame and a later one, which
\* arrived after the media peer had closed, was not
C21_Witness ==
  \E s \in Sessions :
    /\ ClearFrameCount(s) = 1
    /\ sess[s].interruptsRelayable = 1
    /\ sess[s].interruptsAfterStart = 2
    /\ sess[s].ws = "CLOSED"

\* C22: once a 'start' has assigned a stream identifier to a session and to
\* its call record it never changes: every later step, a second 'start'
\* included, leaves the session's streamSid and the record's streamSid as
\* they were.
C22_StreamSidAssignedOnce ==
  [][/\ \A s \in Sessions :
          Truthy(sess[s].streamSid) => sess'[s].streamSid = sess[s].streamSid
     /\ \A c \in (DOMAIN activeCallsStore) \cap (DOMAIN activeCallsStore') :
          (/\ Truthy(activeCallsStore[c].streamSid)
           /\ activeCallsStore'[c].startTime = activeCallsStore[c].startTime)
            => activeCallsStore'[c].streamSid = activeCallsStore[c].streamSid]_vars

MediaReceivedCount(logs) ==
  Cardinality({i \in 1..Len(logs) : logs[i] = "media_received"})

\* C23: a 'media' frame that arrives while the session's AI peer connection is
\* not open is dropped: the step sends nothing to the AI peer and appends no
\* 'media_received' entry to any record's log; and the AI peer gets a chunk,
\* and a log gets a 'media_received' entry, only in the step of a 'media' frame
\* that arrives while the AI peer connection is open, the chunk being that
\* frame's, so a dropped frame is not sent or logged later.
C23_MediaDroppedWhileAiNotOpen ==
  [][/\ \A s \in Sessions :
          /\ (sess[s].el # "OPEN" /\ \E p \in Payloads : MediaMedia(s, p))
               => /\ sess'[s].aiOut = sess[s].aiOut
                  /\ activeCallsStore' = activeCallsStore
          /\ \/ ChunkPayloads(sess'[s].aiOut) = ChunkPayloads(sess[s].aiOut)
             \/ /\ sess[s].el = "OPEN"
                /\ \E p \in Payloads :
                     /\ MediaMedia(s, p)
                     /\ sess'[s].aiOut =
                          Append(sess[s].aiOut, AudioChunkFrame(B64Normalize(p)))
     /\ \A c \in (DOMAIN activeCallsStore) \cap (DOMAIN activeCallsStore') :
          \/ MediaReceivedCount(activeCallsStore'[c].logs)
               <= MediaReceivedCount(activeCallsStore[c].logs)
          \/ \E s \in Sessions, p \in Payloads :
               sess[s].el = "OPEN" /\ sess[s].callSid = c /\ MediaMedia(s, p)]_vars

\* a 'media' frame was dropped while the AI peer was not open; the AI peer has
\* opened since and has been sent the one frame that arrived after that, which
\* is the one 'media_received' entry of the session's record
C23_Witness ==
  \E s \in Sessions :
    /\ sess[s].mediaDropped = 1
    /\ sess[s].el = "OPEN"
    /\ Len(ChunkPayloads(sess[s].aiOut)) = 1
    /\ sess[s].route = "tracked"
    /\ Has(activeCallsStore, sess[s].callSid)
    /\ MediaReceivedCount(activeCallsStore[sess[s].callSid].logs) = 1

====
